---- MODULE Spec2Model ----
(***************************************************************************)
(* Model of src/src/script.js: the galaxy point cloud, its regeneration    *)
(* from the control panel, and the frame loop.                             *)
(*                                                                         *)
(* Numbers are fixed point, one unit per control step:                     *)
(*   count            particles                                            *)
(*   size             thousandths        radius      hundredths            *)
(*   spin             thousandths        randomness  thousandths           *)
(*   randomnessPower  thousandths        colours     the 24 bit hex value  *)
(*   rotationY        hundredths of a radian, time in whole seconds        *)
(* Math.random() is k / RandDenom for k in 0 .. RandDenom - 1.             *)
(***************************************************************************)
EXTENDS Integers, Sequences, FiniteSets, TLC

VARIABLES
    parameters,   \* the global parameters object
    geometry,     \* let geometry: id of a BufferGeometry, or Null
    material,     \* let material: id of a PointsMaterial, or Null
    points,       \* let points: id of a Points object, or Null
    scene,        \* children of the scene
    geometries,   \* every BufferGeometry ever constructed, by id
    materials,    \* every PointsMaterial ever constructed, by id
    pointsObjs,   \* every Points object ever constructed, by id
    log,          \* history: heap operations of the latest generateGalaxy call
    pc,           \* position of the module script: init, generated, running
    active,       \* the control being edited (changed, not yet committed), or None
    edits,        \* history: number of control edits so far
    now,          \* seconds on the clock
    rafPending,   \* frame callbacks requested and not yet run
    lastRender,   \* history: what the latest renderer.render call was given
    event,        \* history: the latest callback that ran
    gpc,          \* generator run: position (idle, loop, done)
    i,            \* generator run: loop index
    positions,    \* generator run: the positions Float32Array
    colors,       \* generator run: the colors Float32Array
    posWrites,    \* generator run, history: indices assigned in positions
    colWrites,    \* generator run, history: indices assigned in colors
    rng           \* generator run: state of the random source

lifeVars == <<geometry, material, points, scene, geometries, materials,
              pointsObjs, log, pc, active, edits, now, rafPending,
              lastRender, event>>
genVars == <<gpc, i, positions, colors, posWrites, colWrites, rng>>
vars == <<parameters, lifeVars, genVars>>

Null == 0
None == "none"

\* ---------------------------------------------------------------- bounds
MaxEdits == 2
MaxTime == 1
MaxCount == 6
MaxBranches == 3
RandDenom == 4

\* ------------------------------------------------------------ parameters
InitialParameters ==
    [count |-> 100000, size |-> 10, radius |-> 500, branches |-> 3,
     spin |-> 1000, randomness |-> 200, randomnessPower |-> 3000,
     insideColor |-> 16736304, outsideColor |-> 1784196]

NumberControls ==
    {"count", "size", "radius", "branches", "spin", "randomness",
     "randomnessPower"}
ColorControls == {"insideColor", "outsideColor"}
Controls == NumberControls \cup ColorControls

\* variant: the radius control declared with .min(0)
Range_RadiusFromZero ==
    [count           |-> [min |-> 100,   max |-> 1000000, step |-> 100],
     size            |-> [min |-> 1,     max |-> 100,     step |-> 1],
     radius          |-> [min |-> 0,     max |-> 2000,    step |-> 1],
     branches        |-> [min |-> 2,     max |-> 20,      step |-> 1],
     spin            |-> [min |-> -5000, max |-> 5000,    step |-> 1],
     randomness      |-> [min |-> 0,     max |-> 2000,    step |-> 1],
     randomnessPower |-> [min |-> 1000,  max |-> 10000,   step |-> 1]]

\* .min(..).max(..).step(..) of each number control, in the parameter's unit
Range ==
    [count           |-> [min |-> 100,   max |-> 1000000, step |-> 100],
     size            |-> [min |-> 1,     max |-> 100,     step |-> 1],
     radius          |-> [min |-> 1,     max |-> 2000,    step |-> 1],
     branches        |-> [min |-> 2,     max |-> 20,      step |-> 1],
     spin            |-> [min |-> -5000, max |-> 5000,    step |-> 1],
     randomness      |-> [min |-> 0,     max |-> 2000,    step |-> 1],
     randomnessPower |-> [min |-> 1000,  max |-> 10000,   step |-> 1]]

\* Math.round: half way cases go up
RoundDiv(a, b) == (2 * a + b) \div (2 * b)

\* the controller rounds a value to its declared step, counted from min
Snap(c, v) ==
    RoundDiv(v - Range[c].min, Range[c].step) * Range[c].step + Range[c].min

\* the controller keeps a value within its declared min and max
Clamp(c, v) ==
    IF v < Range[c].min THEN Range[c].min
    ELSE IF v > Range[c].max THEN Range[c].max
    ELSE v

\* the value a control stores for a raw input v
Constrain(c, v) == IF c \in NumberControls THEN Clamp(c, Snap(c, v)) ELSE v

\* raw values a user may push a control to, in and out of its range
Inputs ==
    [count           |-> {250, 2000000},
     size            |-> {0, 250},
     radius          |-> {0, 2500},
     branches        |-> {1, 25},
     spin            |-> {-6000, 0},
     randomness      |-> {-5, 2001},
     randomnessPower |-> {999, 10001},
     insideColor     |-> {16777215},
     outsideColor    |-> {0}]

\* variant: generateGalaxy registered with onChange on every control
OnChange_All == Controls

\* the controls whose onChange handler, called on every intermediate value,
\* is generateGalaxy: none is registered
OnChange == {}

\* the controls whose onFinishChange handler is generateGalaxy
OnFinishChange == Controls

\* ------------------------------------------------------- generateGalaxy
\* The world a callback acts on, as one record
World ==
    [geometry |-> geometry, material |-> material, points |-> points,
     scene |-> scene, geometries |-> geometries, materials |-> materials,
     pointsObjs |-> pointsObjs, log |-> log]

Op(name, id) == [op |-> name, id |-> id]
Child(kind, id) == [kind |-> kind, id |-> id]
Camera == Child("Camera", 0)

\* variant: scene.remove(points) left out
DestroyOld_NoRemove(w) ==
    IF w.points # Null
    THEN [w EXCEPT
            !.geometries[w.geometry].disposed = TRUE,
            !.materials[w.material].disposed = TRUE,
            !.log = w.log \o <<Op("dispose_geometry", w.geometry),
                               Op("dispose_material", w.material)>>]
    ELSE w

\* variant: material.dispose() left out
DestroyOld_NoMaterialDispose(w) ==
    IF w.points # Null
    THEN [w EXCEPT
            !.geometries[w.geometry].disposed = TRUE,
            !.scene = w.scene \ {Child("Points", w.points)},
            !.log = w.log \o <<Op("dispose_geometry", w.geometry),
                               Op("remove", w.points)>>]
    ELSE w

\* lines 43-47: geometry.dispose(); material.dispose(); scene.remove(points)
DestroyOld(w) ==
    IF w.points # Null
    THEN [w EXCEPT
            !.geometries[w.geometry].disposed = TRUE,
            !.materials[w.material].disposed = TRUE,
            !.scene = w.scene \ {Child("Points", w.points)},
            !.log = w.log \o <<Op("dispose_geometry", w.geometry),
                               Op("dispose_material", w.material),
                               Op("remove", w.points)>>]
    ELSE w

\* geometry = new BufferGeometry(), with the two attributes the loop fills;
\* the buffers' contents are modelled by the generator run below
NewGeometry(w, p) ==
    LET id == Len(w.geometries) + 1 IN
    [w EXCEPT
       !.geometry = id,
       !.geometries = Append(w.geometries,
           [disposed |-> FALSE, position |-> p.count * 3,
            color |-> p.count * 3]),
       !.log = Append(w.log, Op("new_geometry", id))]

\* material = new PointsMaterial({...})
NewMaterial(w, p) ==
    LET id == Len(w.materials) + 1 IN
    [w EXCEPT
       !.material = id,
       !.materials = Append(w.materials,
           [disposed |-> FALSE, size |-> p.size, sizeAttenuation |-> TRUE,
            depthWrite |-> FALSE, blending |-> "AdditiveBlending",
            vertexColors |-> TRUE]),
       !.log = Append(w.log, Op("new_material", id))]

\* points = new Points(geometry, material); scene.add(points)
NewPoints(w) ==
    LET id == Len(w.pointsObjs) + 1 IN
    [w EXCEPT
       !.points = id,
       !.pointsObjs = Append(w.pointsObjs,
           [geometry |-> w.geometry, material |-> w.material,
            rotationY |-> 0]),
       !.scene = w.scene \cup {Child("Points", id)},
       !.log = w.log \o <<Op("new_points", id), Op("add", id)>>]

\* variant: the destroy block placed after the constructions
GenerateGalaxy_DestroyLast(w, p) ==
    DestroyOld(NewPoints(NewMaterial(NewGeometry(w, p), p)))

\* generateGalaxy, in the order of its statements
GenerateGalaxy(w, p) ==
    NewPoints(NewMaterial(NewGeometry(DestroyOld(w), p), p))

\* ------------------------------------------------------------------ tick
RotationRate == 5

Outcomes == {"ok", "updateThrows", "renderThrows"}

\* what renderer.render(scene, camera) is handed
Observe(w) ==
    [renderables |-> {c.id : c \in {d \in w.scene : d.kind = "Points"}},
     disposed |-> {c.id : c \in {d \in w.scene : d.kind = "Points" /\
                     (w.geometries[w.pointsObjs[d.id].geometry].disposed \/
                      w.materials[w.pointsObjs[d.id].material].disposed)}},
     points |-> w.points, geometry |-> w.geometry, material |-> w.material]

\* variant: the rotation scaled by parameters.spin
Rotate_BySpin(w, elapsedTime) ==
    IF w.points # Null
    THEN [w EXCEPT !.pointsObjs[w.points].rotationY =
                       (elapsedTime * RotationRate * parameters.spin) \div 1000]
    ELSE w

\* if (points) points.rotation.y = elapsedTime * 0.05
Rotate(w, elapsedTime) ==
    IF w.points # Null
    THEN [w EXCEPT !.pointsObjs[w.points].rotationY =
                       elapsedTime * RotationRate]
    ELSE w

\* variant: requestAnimationFrame called first, before anything can throw
Requested_Always(outcome) == 1

\* frames requested by one run of tick: requestAnimationFrame is its last
\* statement, reached only when neither call before it throws
Requested(outcome) == IF outcome = "ok" THEN 1 ELSE 0

\* does the run reach renderer.render
Renders(outcome) == outcome # "updateThrows"

\* one run of tick, from a world w at clock reading elapsedTime
Tick(w, elapsedTime, outcome) ==
    LET w1 == Rotate(w, elapsedTime) IN
    /\ pointsObjs' = w1.pointsObjs
    /\ lastRender' = IF Renders(outcome) THEN <<Observe(w1)>> ELSE lastRender
    /\ event' = [kind |-> "tick", outcome |-> outcome]
    /\ UNCHANGED <<parameters, geometry, material, points, geometries,
                   materials, log, active, edits, now>>

\* one run of generateGalaxy, reading the parameters p
Regenerate(kind, p) ==
    LET w == GenerateGalaxy([World EXCEPT !.log = <<>>], p) IN
    /\ geometry' = w.geometry
    /\ material' = w.material
    /\ points' = w.points
    /\ scene' = w.scene
    /\ geometries' = w.geometries
    /\ materials' = w.materials
    /\ pointsObjs' = w.pointsObjs
    /\ log' = w.log
    /\ event' = [kind |-> kind, outcome |-> "ok"]
    /\ UNCHANGED <<now, rafPending, lastRender>>

\* ------------------------------------------------------------- lifecycle
Init ==
    /\ parameters = InitialParameters
    /\ geometry = Null
    /\ material = Null
    /\ points = Null
    /\ scene = {}
    /\ geometries = <<>>
    /\ materials = <<>>
    /\ pointsObjs = <<>>
    /\ log = <<>>
    /\ pc = "init"
    /\ active = None
    /\ edits = 0
    /\ now = 0
    /\ rafPending = 0
    /\ lastRender = <<>>
    /\ event = [kind |-> "none", outcome |-> "ok"]
    /\ gpc = "idle"
    /\ i = 0
    /\ positions = <<>>
    /\ colors = <<>>
    /\ posWrites = {}
    /\ colWrites = {}
    /\ rng = 0

\* line 116: the initial generateGalaxy() of the module script
LoadGenerate ==
    /\ pc = "init"
    /\ Regenerate("load", parameters)
    /\ pc' = "generated"
    /\ UNCHANGED <<parameters, active, edits, genVars>>

\* lines 121-202: the controls are registered, the camera is added to the
\* scene, and the script ends with the first, direct, call of tick
LoadTick(outcome) ==
    /\ pc = "generated"
    /\ Tick([World EXCEPT !.scene = scene \cup {Camera}], now, outcome)
    /\ scene' = scene \cup {Camera}
    /\ rafPending' = rafPending + Requested(outcome)
    /\ pc' = "running"
    /\ UNCHANGED genVars

\* the user moves control c to a new value: the controller writes the
\* constrained value into parameters and calls the onChange handler
Drag(c, v) ==
    /\ pc = "running"
    /\ active \in {None, c}
    /\ edits < MaxEdits
    /\ Constrain(c, v) # parameters[c]
    /\ parameters' = [parameters EXCEPT ![c] = Constrain(c, v)]
    /\ active' = c
    /\ edits' = edits + 1
    /\ IF c \in OnChange
       THEN Regenerate("drag", parameters')
       ELSE /\ event' = [kind |-> "drag", outcome |-> "ok"]
            /\ UNCHANGED <<geometry, material, points, scene, geometries,
                           materials, pointsObjs, log, now, rafPending,
                           lastRender>>
    /\ UNCHANGED <<pc, genVars>>

\* the user releases control c: the controller calls the onFinishChange
\* handler
Commit(c) ==
    /\ pc = "running"
    /\ active = c
    /\ IF c \in OnFinishChange
       THEN Regenerate("commit", parameters)
       ELSE /\ event' = [kind |-> "commit", outcome |-> "ok"]
            /\ UNCHANGED <<geometry, material, points, scene, geometries,
                           materials, pointsObjs, log, now, rafPending,
                           lastRender>>
    /\ active' = None
    /\ UNCHANGED <<parameters, edits, pc, genVars>>

\* a requested animation frame runs tick
Frame(outcome) ==
    /\ pc = "running"
    /\ rafPending > 0
    /\ Tick(World, now, outcome)
    /\ rafPending' = rafPending - 1 + Requested(outcome)
    /\ UNCHANGED <<pc, scene, genVars>>

\* time passes
Advance ==
    /\ pc = "running"
    /\ now < MaxTime
    /\ now' = now + 1
    /\ event' = [kind |-> "advance", outcome |-> "ok"]
    /\ UNCHANGED <<parameters, geometry, material, points, scene, geometries,
                   materials, pointsObjs, log, pc, active, edits, rafPending,
                   lastRender, genVars>>

Next ==
    \/ LoadGenerate
    \/ \E o \in Outcomes : LoadTick(o)
    \/ \E c \in Controls : \E v \in Inputs[c] : Drag(c, v)
    \/ \E c \in Controls : Commit(c)
    \/ \E o \in Outcomes : Frame(o)
    \/ Advance

Spec == Init /\ [][Next]_vars

\* ------------------------------------------------- one generator run
\* Lines 53-95 of generateGalaxy, one loop iteration per step, for small
\* parameter sets. The random source is a generator with hidden state rng:
\* each Math.random() returns rng / RandDenom and advances it.
RandomNext(s) == (s + 1) % RandDenom

\* the state of the random source after n calls
RECURSIVE RandomAfter(_, _)
RandomAfter(s, n) == IF n = 0 THEN s ELSE RandomAfter(RandomNext(s), n - 1)

\* the value of the n-th call from state s, n = 0 the next one
MathRandom(s, n) == RandomAfter(s, n)

RECURSIVE Pow(_, _)
Pow(x, n) == IF n = 0 THEN 1 ELSE x * Pow(x, n - 1)

\* new Float32Array(n): n slots holding 0, indexed from 0
ZeroPosition ==
    [trig |-> "none", turn |-> <<0, 1>>, spin |-> 0, radius |-> 0,
     random |-> 0]
ZeroColor == [num |-> 0, den |-> 1, t |-> <<0, 1>>]
Float32Array(n, zero) == [k \in 0 .. n - 1 |-> zero]

\* array[k] = v: an index outside the array is ignored
Store(array, k, v) ==
    IF k \in DOMAIN array THEN [array EXCEPT ![k] = v] ELSE array

\* variant: i <= parameters.count
LoopContinues_Inclusive(idx, p) == idx <= p.count

\* for (let i = 0; i < parameters.count; i++)
LoopContinues(idx, p) == idx < p.count

\* variant: (Math.random() * 2 - 1) * parameters.radius
Radius_Centered(u, p) == (2 * u - RandDenom) * p.radius

\* radius = Math.random() * parameters.radius, over RandDenom hundredths
Radius(u, p) == u * p.radius

\* spinAngle = radius * parameters.spin
SpinAngle(radius, p) == radius * p.spin

\* variant: i3 used in place of i
BranchAngle_ByI3(idx, p) == <<(idx * 3) % p.branches, p.branches>>

\* branchAngle = (i % branches) / branches * 2 pi, as a fraction of a turn
BranchAngle(idx, p) == <<idx % p.branches, p.branches>>

\* Math.pow(Math.random(), randomnessPower) * (Math.random() < 0.5 ? 1 : -1)
\* * randomness * radius, over RandDenom ^ power; the power is whole here
Jitter(u, v, radius, p) ==
    Pow(u, p.randomnessPower \div 1000)
    * (IF 2 * v < RandDenom THEN 1 ELSE -1) * p.randomness * radius

\* the r, g, b channels of new Color(hex), each 0 .. 255
Channels(hex) == <<hex \div 65536, (hex \div 256) % 256, hex % 256>>

\* clone().lerp(to, alpha): from + (to - from) * alpha, alpha = tnum / tden
Lerp(from, to, tnum, tden) ==
    [num |-> from * tden + (to - from) * tnum, den |-> tden,
     t |-> <<tnum, tden>>]

\* parameter sets the control panel can leave behind, with small counts
GenParameters ==
    [count : 1 .. MaxCount, size : {10}, radius : {1, 500, 2000},
     branches : 2 .. MaxBranches, spin : {-5000, 0, 1000},
     randomness : {0, 200}, randomnessPower : {1000, 3000},
     insideColor : {16736304}, outsideColor : {1784196}]

InitGen ==
    /\ parameters \in GenParameters
    /\ rng \in 0 .. RandDenom - 1
    /\ gpc = "start"
    /\ i = 0
    /\ positions = <<>>
    /\ colors = <<>>
    /\ posWrites = {}
    /\ colWrites = {}
    /\ geometry = Null
    /\ material = Null
    /\ points = Null
    /\ scene = {}
    /\ geometries = <<>>
    /\ materials = <<>>
    /\ pointsObjs = <<>>
    /\ log = <<>>
    /\ pc = "init"
    /\ active = None
    /\ edits = 0
    /\ now = 0
    /\ rafPending = 0
    /\ lastRender = <<>>
    /\ event = [kind |-> "none", outcome |-> "ok"]

\* lines 53-54: the two arrays are allocated
GenStart ==
    /\ gpc = "start"
    /\ positions' = Float32Array(parameters.count * 3, ZeroPosition)
    /\ colors' = Float32Array(parameters.count * 3, ZeroColor)
    /\ i' = 0
    /\ gpc' = "loop"
    /\ UNCHANGED <<parameters, lifeVars, posWrites, colWrites, rng>>

\* lines 61-91: one iteration of the loop
GenParticle ==
    /\ gpc = "loop"
    /\ LoopContinues(i, parameters)
    /\ LET p == parameters
           i3 == i * 3
           radius == Radius(MathRandom(rng, 0), p)
           spinAngle == SpinAngle(radius, p)
           branchAngle == BranchAngle(i, p)
           randomX == Jitter(MathRandom(rng, 1), MathRandom(rng, 2), radius, p)
           randomY == Jitter(MathRandom(rng, 3), MathRandom(rng, 4), radius, p)
           randomZ == Jitter(MathRandom(rng, 5), MathRandom(rng, 6), radius, p)
           x == [trig |-> "cos", turn |-> branchAngle, spin |-> spinAngle,
                 radius |-> radius, random |-> randomX]
           y == [ZeroPosition EXCEPT !.random = randomY]
           z == [trig |-> "sin", turn |-> branchAngle, spin |-> spinAngle,
                 radius |-> radius, random |-> randomZ]
           colorInside == Channels(p.insideColor)
           colorOutside == Channels(p.outsideColor)
           mixed(ch) == Lerp(colorInside[ch], colorOutside[ch], radius,
                             p.radius * RandDenom)
       IN
       /\ positions' = Store(Store(Store(positions, i3, x), i3 + 1, y),
                             i3 + 2, z)
       /\ colors' = Store(Store(Store(colors, i3, mixed(1)), i3 + 1,
                                mixed(2)), i3 + 2, mixed(3))
       /\ posWrites' = posWrites \cup {i3, i3 + 1, i3 + 2}
       /\ colWrites' = colWrites \cup {i3, i3 + 1, i3 + 2}
       /\ rng' = RandomAfter(rng, 7)
    /\ i' = i + 1
    /\ UNCHANGED <<parameters, lifeVars, gpc>>

\* the loop ends; lines 94-95 hand the arrays to the geometry
GenFinish ==
    /\ gpc = "loop"
    /\ ~LoopContinues(i, parameters)
    /\ gpc' = "done"
    /\ UNCHANGED <<parameters, lifeVars, i, positions, colors, posWrites,
                   colWrites, rng>>

NextGen == GenStart \/ GenParticle \/ GenFinish

SpecGen == InitGen /\ [][NextGen]_vars

\* ---------------------------------------------------------------- claims
Renderables == {c \in scene : c.kind = "Points"}

Generated == event'.kind \in {"load", "commit"}
TickRan == event'.kind = "tick"
TickThrew == event'.kind = "tick" /\ event'.outcome # "ok"

\* a occurs in the sequence l at an earlier index than b
Before(l, a, b) ==
    \E m, n \in 1 .. Len(l) : m < n /\ l[m] = a /\ l[n] = b

\* C1: once generateGalaxy has run, exactly one Points object is attached to
\* the scene, and it is the one the latest run constructed.
C1_OneRenderable ==
    Len(pointsObjs) >= 1 =>
        /\ Renderables = {Child("Points", points)}
        /\ points = Len(pointsObjs)
        /\ pointsObjs[points].geometry = Len(geometries)
        /\ pointsObjs[points].material = Len(materials)

C1_Witness ==
    /\ Len(pointsObjs) = 3
    /\ Renderables = {Child("Points", 3)}
    /\ event.kind = "commit"

\* C2: a run of generateGalaxy that finds a renderable disposes the previous
\* geometry and material and removes the previous Points object before it
\* constructs the new ones; the first run disposes and removes nothing; so
\* every geometry and material but the current pair is disposed.
C2_DisposeBeforeReplace ==
    /\ [][Generated =>
            IF points = Null
            THEN \A k \in 1 .. Len(log') :
                    log'[k].op \notin
                        {"dispose_geometry", "dispose_material", "remove"}
            ELSE \A d \in {Op("dispose_geometry", geometry),
                            Op("dispose_material", material),
                            Op("remove", points)} :
                 \A n \in {Op("new_geometry", geometry'),
                            Op("new_material", material'),
                            Op("new_points", points')} :
                    Before(log', d, n)]_vars
    /\ [](/\ \A g \in 1 .. Len(geometries) :
                g # geometry => geometries[g].disposed
          /\ \A m \in 1 .. Len(materials) :
                m # material => materials[m].disposed)

C2_Witness ==
    /\ event.kind = "commit"
    /\ Len(geometries) = 3
    /\ geometries[1].disposed /\ geometries[2].disposed
    /\ materials[1].disposed /\ materials[2].disposed
    /\ log[1] = Op("dispose_geometry", 2)

\* C6: a control regenerates the galaxy once when a change is committed and
\* not while the change is in progress: a step that changes a parameter
\* leaves the renderable as it is, and a step that commits constructs
\* exactly one new renderable.
C6_OnlyOnCommit ==
    [][/\ parameters' # parameters =>
            UNCHANGED <<geometry, material, points, scene, geometries,
                        materials, pointsObjs>>
       /\ (active # None /\ active' = None) =>
            /\ Len(geometries') = Len(geometries) + 1
            /\ Len(materials') = Len(materials) + 1
            /\ Len(pointsObjs') = Len(pointsObjs) + 1
            /\ points' # points]_vars

C6_Witness ==
    /\ event.kind = "drag"
    /\ edits = 2
    /\ active = "spin"
    /\ parameters.spin # InitialParameters.spin
    /\ Len(geometries) = 1

\* the ranges the control panel declares, in the parameters' units
DeclaredRange ==
    [count           |-> <<100, 1000000>>,
     size            |-> <<1, 100>>,
     radius          |-> <<1, 2000>>,
     branches        |-> <<2, 20>>,
     spin            |-> <<-5000, 5000>>,
     randomness      |-> <<0, 2000>>,
     randomnessPower |-> <<1000, 10000>>]

\* C7: every number parameter stays within its declared range through any
\* control-panel edits; radius is at least 0.01, never zero.
C7_InRange ==
    /\ \A c \in NumberControls :
          DeclaredRange[c][1] <= parameters[c] /\
          parameters[c] <= DeclaredRange[c][2]
    /\ parameters.radius >= 1

C7_Witness ==
    /\ event.kind = "commit"
    /\ parameters.radius = 1
    /\ parameters.count = 1000000

\* C8: a tick that completes leaves the attached renderable's rotation at
\* elapsedTime * 0.05 whatever spin is, has rendered the scene, and leaves
\* exactly one frame requested; a requested frame is only ever lost by a
\* tick that throws.
C8_TickRotatesAndReschedules ==
    [][/\ (TickRan /\ ~TickThrew) =>
            /\ points' # Null =>
                  pointsObjs'[points'].rotationY = now' * RotationRate
            /\ Len(lastRender') = 1
            /\ lastRender'[1].renderables = {c.id : c \in Renderables'}
            /\ rafPending' = 1
       /\ (pc = "running" /\ rafPending = 1 /\ ~TickThrew) =>
            rafPending' = 1]_vars

C8_Witness ==
    /\ event = [kind |-> "tick", outcome |-> "ok"]
    /\ Len(pointsObjs) = 2
    /\ parameters.spin = 0
    /\ now = 1
    /\ pointsObjs[2].rotationY = RotationRate
    /\ rafPending = 1

\* C9: a tick in which controls.update or renderer.render throws requests
\* no frame; with no frame requested no tick runs again; and nothing but
\* such a throw takes the requested frame away.
C9_ThrowIsFatal ==
    [][/\ TickThrew => rafPending' = 0
       /\ (pc = "running" /\ rafPending = 0) => ~TickRan /\ rafPending' = 0
       /\ rafPending' < rafPending => TickThrew]_vars

C9_Witness ==
    /\ pc = "running"
    /\ rafPending = 0
    /\ lastRender # <<>>
    /\ event.kind = "commit"

\* C10: whenever tick runs, points is not null, and what it renders is a
\* scene with exactly one renderable, the current points object, built
\* from the current geometry and material, neither of them disposed.
C10_RenderSeesLiveGalaxy ==
    /\ event.kind = "tick" => points # Null
    /\ lastRender # <<>> =>
          LET o == lastRender[1] IN
          /\ o.points # Null
          /\ o.renderables = {o.points}
          /\ o.disposed = {}
          /\ pointsObjs[o.points].geometry = o.geometry
          /\ pointsObjs[o.points].material = o.material

C10_Witness ==
    /\ event.kind = "tick"
    /\ lastRender # <<>>
    /\ lastRender[1].points = 2
    /\ geometries[1].disposed
    /\ scene = {Camera, Child("Points", 2)}

\* the slots of particle j
Slots(j) == {3 * j, 3 * j + 1, 3 * j + 2}

\* C3: a finished run leaves positions and colors with exactly 3 * count
\* slots each, has assigned the three slots of every particle in both, and
\* has assigned no other index.
C3_BufferShape ==
    gpc = "done" =>
        /\ DOMAIN positions = 0 .. 3 * parameters.count - 1
        /\ DOMAIN colors = 0 .. 3 * parameters.count - 1
        /\ \A j \in 0 .. parameters.count - 1 :
              Slots(j) \subseteq posWrites /\ Slots(j) \subseteq colWrites
        /\ posWrites \subseteq 0 .. 3 * parameters.count - 1
        /\ colWrites \subseteq 0 .. 3 * parameters.count - 1

C3_Witness ==
    /\ gpc = "done"
    /\ parameters.count = MaxCount
    /\ Cardinality(posWrites) = 3 * MaxCount
    /\ positions[3 * MaxCount - 1].trig = "sin"

\* the branch angle particle j was given, as stored in its x slot
TurnOf(j) == positions[3 * j].turn

\* C4: particle j is on branch j mod branches, at that fraction of a turn,
\* in its x and z slots alike; particles branches apart have the same
\* angle; any branches consecutive particles cover every branch once.
C4_RoundRobinBranches ==
    LET b == parameters.branches IN
    gpc \in {"loop", "done"} =>
        /\ \A j \in 0 .. i - 1 :
              j \in 0 .. parameters.count - 1 =>
                /\ TurnOf(j) = <<j % b, b>>
                /\ positions[3 * j + 2].turn = TurnOf(j)
        /\ \A j \in 0 .. i - 1 :
              j + b < i /\ j + b < parameters.count =>
                TurnOf(j) = TurnOf(j + b)
        /\ \A j \in 0 .. i - 1 :
              j + b <= i /\ j + b <= parameters.count =>
                {TurnOf(m)[1] : m \in j .. j + b - 1} = 0 .. b - 1

C4_Witness ==
    /\ gpc = "done"
    /\ parameters.branches = 3
    /\ parameters.count = 6
    /\ TurnOf(1) = <<1, 3>>
    /\ TurnOf(4) = <<1, 3>>
    /\ positions[3].radius # positions[12].radius

\* C5: every particle's radius is between 0 and parameters.radius, so the
\* fraction its colour is interpolated by is between 0 and 1, with a
\* divisor that is not zero.
C5_RadiusInRange ==
    gpc \in {"loop", "done"} =>
        \A j \in 0 .. i - 1 :
            j \in 0 .. parameters.count - 1 =>
                /\ 0 <= positions[3 * j].radius
                /\ positions[3 * j].radius <= parameters.radius * RandDenom
                /\ \A k \in Slots(j) :
                      /\ colors[k].t[2] > 0
                      /\ 0 <= colors[k].t[1]
                      /\ colors[k].t[1] <= colors[k].t[2]

C5_Witness ==
    /\ gpc = "done"
    /\ parameters.radius = 2000
    /\ \E j \in 0 .. parameters.count - 1 :
          positions[3 * j].radius = 0
    /\ \E j \in 0 .. parameters.count - 1 :
          positions[3 * j].radius = 2000 * (RandDenom - 1)

====
